---- MODULE Spec2Model ----
(***************************************************************************)
(* A model of meas_astrom's determineWcs.py (determineWcs,                 *)
(* getImageSizeInArcsec, matchSrcAndCatalogue) and denormalizeMatches.py   *)
(* (denormalizeMatches).                                                   *)
(*                                                                         *)
(* One behaviour is one call of one of the three entry points.  The        *)
(* collaborators the code calls but does not define (the astrometry.net    *)
(* solver, MatchSrcToCatalogue, cleanBadPoints.clean, CreateWcsWithSip)    *)
(* answer nondeterministically; every call to one of them is appended to   *)
(* the log `calls` with the arguments the code passes.                     *)
(*                                                                         *)
(* Python values that may be None, a list or an object are tagged records  *)
(* so that any two of them can be compared.                                *)
(***************************************************************************)
EXTENDS Integers, Sequences, FiniteSets

VARIABLES
    entry,       \* the function called: "determineWcs", "matchSrcAndCatalogue", "denormalizeMatches"
    pc,          \* position in the running function
    policy,      \* determineWcs: the policy object (the keys the code reads)
    expWcs,      \* determineWcs: the Wcs held by the exposure
    srcSet,      \* determineWcs: sourceSet, a list of sources with pixel positions
    wcsIn,       \* determineWcs: local wcsIn
    isSolved,    \* determineWcs: local isSolved
    linearWcs,   \* determineWcs: local linearWcs
    matchList,   \* determineWcs: local matchList
    sipObject,   \* determineWcs: local sipObject (Unbound until assigned)
    resets,      \* number of solver.reset() calls
    margs,       \* matchSrcAndCatalogue: its arguments cat, img, wcs, distInArcsec, cleanParam
    mMatchList,  \* matchSrcAndCatalogue: local matchList
    calls,       \* log of the collaborator calls made so far
    result,      \* outcome of the entry point: Pending, Return(v) or Raise(e)
    matches,     \* denormalizeMatches: argument matches
    matchMeta,   \* denormalizeMatches: argument matchMeta
    mappers,     \* denormalizeMatches: refMapper, srcMapper once built
    schema,      \* denormalizeMatches: the output schema (field names in order)
    catalog,     \* denormalizeMatches: the rows of the catalog built so far
    metadata,    \* denormalizeMatches: the metadata attached to the catalog's table
    loopIdx,     \* denormalizeMatches: number of matches the for loop has consumed
    work         \* associate / clean: the arguments and locals of the running call

wcsVars == <<policy, expWcs, srcSet, wcsIn, isSolved, linearWcs, matchList, sipObject, resets>>
matchVars == <<margs, mMatchList>>
denormVars == <<matches, matchMeta, mappers, schema, catalog, metadata, loopIdx>>
vars == <<entry, pc, wcsVars, matchVars, denormVars, calls, result, work>>

-----------------------------------------------------------------------------
(* Bounds of the model *)

MaxSources == 2     \* longest sourceSet
MaxMatches == 2     \* longest list the matcher returns / longest list given to denormalizeMatches

-----------------------------------------------------------------------------
(* Python values *)

None == [tag |-> "None"]
Unbound == [tag |-> "unbound"]          \* a local name not assigned yet
Idle == [tag |-> "idle"]                \* a variable the running entry point does not use
PyList(s) == [tag |-> "list", items |-> s]
IsList(v) == v.tag = "list"
PyLen(v) == Len(v.items)

Pending == [kind |-> "pending"]
Return(v) == [kind |-> "return", value |-> v]
Raise(e) == [kind |-> "raise", error |-> e]

PyBool(b) == [tag |-> "bool", val |-> b]
PyTrue == PyBool(TRUE)
PyFalse == PyBool(FALSE)

(* A collaborator call: name, arguments and what it answered *)
Call(f, a, o) == [fn |-> f, args |-> a, out |-> o]
CallsOf(f) == {i \in 1..Len(calls) : calls[i].fn = f}
Called(f) == CallsOf(f) # {}

(* All sequences over S of length at most n *)
SeqsUpTo(S, n) == UNION {[1..k -> S] : k \in 0..n}

(* The order-preserving sub-lists of s *)
SubSeqs(s) ==
    LET Pick(I) == [k \in 1..Cardinality(I) |->
                       s[CHOOSE i \in I : Cardinality({j \in I : j < i}) = k - 1]]
    IN  {Pick(I) : I \in SUBSET (1..Len(s))}

-----------------------------------------------------------------------------
(* Inputs and collaborator answers *)

(* Pixel positions (getXAstrom, getYAstrom) a detected source may have *)
SourcePositions == {[x |-> 0, y |-> 2], [x |-> 1, y |-> 0]}
SourceSets == {PyList(s) : s \in SeqsUpTo(SourcePositions, MaxSources)}

Wcs(n, c) == [tag |-> "wcs", name |-> n, cd |-> c]
InputWcs == Wcs("wcsIn", 1)
(* The transforms solver.getWcs() may hand back after a successful solve *)
SolverWcsSet == {Wcs("linearWcs", 1), Wcs("linearWcs", 2)}
(* The lists solver.getCatalogue() may hand back *)
Catalogues == {PyList(<<>>), PyList(<<"star1">>), PyList(<<"star1", "star2">>)}

(* The policy keys determineWcs reads; the two flags vary *)
Policies ==
    {[blindSolve |-> b, calculateSip |-> c, outputWcsKey |-> "outWcs",
      allowDistortion |-> TRUE, matchThreshold |-> 30, numBrightStars |-> 50,
      distanceForCatalogueMatchinArcsec |-> 1, cleaningParameter |-> 3,
      wcsToleranceInArcsec |-> 1, maxSipOrder |-> 4] : b \in BOOLEAN, c \in BOOLEAN}

(* Wcs.xyToRaDec of a linear transform with scale cd about the origin *)
xyToRaDec(wcs, x, y) == <<wcs.cd * x, wcs.cd * y>>

Min(S) == CHOOSE m \in S : \A n \in S : m <= n
Max(S) == CHOOSE m \in S : \A n \in S : m >= n

(* The number the code multiplies degrees by to get arcseconds *)
ArcsecPerDegree == 3600

(* getImageSizeInArcsec.  A length r >= 0 is held as its square r*r, so  *)
(* that math.sqrt is exact: the operator yields (dist*3600)^2.           *)
getImageSizeInArcsecSq(srcs, wcs) ==
    LET x == {srcs[i].x : i \in 1..Len(srcs)}
        y == {srcs[i].y : i \in 1..Len(srcs)}
        llc == xyToRaDec(wcs, Min(x), Min(y))
        urc == xyToRaDec(wcs, Max(x), Max(y))
        deltaRa == urc[1] - llc[1]
        deltaDec == urc[2] - llc[2]
        distSq == deltaRa * deltaRa + deltaDec * deltaDec
    IN  distSq * ArcsecPerDegree * ArcsecPerDegree

(* As CatalogueRadiusSq, had the factor 2 been left out *)
CatalogueRadiusSqSingle(sizeSq) == sizeSq

(* 2*imgSizeInArcsec, held as its square *)
CatalogueRadiusSq(sizeSq) == 2 * 2 * sizeSq

(* What MatchSrcToCatalogue(cat, img, wcs, dist).getMatches() may answer: *)
(* no list at all, or a list of (catalogue star, source, distance).       *)
MatchesOver(cat, img) ==
    {[first |-> c, second |-> s, distance |-> 0] :
        c \in {cat.items[i] : i \in 1..PyLen(cat)},
        s \in {img.items[i] : i \in 1..PyLen(img)}}
MatcherAnswers(cat, img) ==
    {None} \cup {PyList(s) : s \in SeqsUpTo(MatchesOver(cat, img), MaxMatches)}

(* What cleanBadPoints.clean(matchList, wcs, nsigma) may answer: the list *)
(* with some of its points removed.                                       *)
CleanerAnswers(ml) == {PyList(s) : s \in SubSeqs(ml.items)}

(* What CreateWcsWithSip(matchList, linearWcs, ...) builds when it succeeds *)
SipObject(ml, wcs) == [tag |-> "sip", newWcs |-> Wcs("sipWcs", wcs.cd)]

-----------------------------------------------------------------------------
(* Initial states: the call of an entry point with its arguments *)

MatchArgs(c, i, w, d, n) == [tag |-> "args", cat |-> c, img |-> i, wcs |-> w, distInArcsec |-> d, cleanParam |-> n]

(* Defaults of matchSrcAndCatalogue's keyword arguments *)
DefaultDistInArcsec == 1
DefaultCleanParam == 3

IdleWcs ==
    /\ policy = Idle /\ expWcs = Idle /\ srcSet = Idle /\ wcsIn = Idle
    /\ isSolved = Idle /\ linearWcs = Idle /\ matchList = Idle /\ sipObject = Idle
    /\ resets = 0
IdleMatch == margs = Idle /\ mMatchList = Idle
IdleDenorm ==
    /\ matches = Idle /\ matchMeta = Idle /\ mappers = Idle /\ schema = Idle
    /\ catalog = Idle /\ metadata = Idle /\ loopIdx = 0

InitDetermineWcs ==
    /\ entry = "determineWcs"
    /\ pc = "start"
    /\ policy \in Policies
    /\ expWcs \in {None, InputWcs}
    /\ srcSet \in SourceSets
    /\ wcsIn = Unbound /\ isSolved = Unbound /\ linearWcs = Unbound
    /\ matchList = Unbound /\ sipObject = Unbound
    /\ resets = 0
    /\ IdleMatch /\ IdleDenorm /\ work = Idle
    /\ calls = <<>>
    /\ result = Pending

InitMatchSrcAndCatalogue ==
    /\ entry = "matchSrcAndCatalogue"
    /\ pc = "match_pre"
    /\ \E c \in {None} \cup Catalogues, i \in {None} \cup SourceSets,
          w \in {None, Wcs("linearWcs", 1)} :
          margs = MatchArgs(c, i, w, DefaultDistInArcsec, DefaultCleanParam)
    /\ mMatchList = Unbound
    /\ IdleWcs /\ IdleDenorm /\ work = Idle
    /\ calls = <<>>
    /\ result = Pending

-----------------------------------------------------------------------------
(* determineWcs *)

(* line 63: doBlindSolve *)
DoBlindSolve(pol, w) == pol.blindSolve \/ (w = None)

(* lines 68-71: the arguments solver.solve is called with *)
SolveArgs(pol, w) == IF DoBlindSolve(pol, w) \/ TRUE THEN <<>> ELSE <<w>>

(* line 75: isSolved == False *)
SolveFailedTest(b) == b = PyFalse

(* As FallbackOutcome, had the code returned (None, None) *)
FallbackLosesWcs(w) == Return(<<None, None>>)

(* lines 78 and 101: the fallback return *)
FallbackOutcome(w) == Return(<<None, w>>)

(* As NoMatches, had the test for an empty list been left out *)
NoMatchesNever(ml) == FALSE

(* line 97: the test for an empty cleaned list *)
NoMatches(ml) == PyLen(ml) = 0

(* line 119: the final return; sipObject is unbound when line 111 did not run *)
DoneOutcome(ml, sip) ==
    IF sip = Unbound THEN Raise("NameError: sipObject")
    ELSE Return(<<ml, sip.newWcs>>)

(* As FitterFailure, had the call been wrapped in a handler that falls back *)
FitterFailureMasked(e, w) == FallbackOutcome(w)

(* An exception CreateWcsWithSip raises leaves determineWcs as it is: no handler *)
FitterFailure(e, w) == Raise(e)

(* lines 32-60: read the policy and the exposure, configure the solver *)
Setup ==
    /\ entry = "determineWcs" /\ pc = "start"
    /\ wcsIn' = expWcs
    /\ calls' = calls \o
         <<Call("allowDistortion", <<policy.allowDistortion>>, Return(None)),
           Call("setMatchThreshold", <<policy.matchThreshold>>, Return(None)),
           Call("setStarlist", <<srcSet>>, Return(None)),
           Call("setNumBrightObjects", <<policy.numBrightStars>>, Return(None))>>
    /\ pc' = "solve"
    /\ UNCHANGED <<entry, work, policy, expWcs, srcSet, isSolved, linearWcs, matchList,
                   sipObject, resets, matchVars, denormVars, result>>

(* lines 62-71: the solve step; the solver answers True or False *)
Solve ==
    /\ entry = "determineWcs" /\ pc = "solve"
    /\ \E ok \in {PyTrue, PyFalse} :
        /\ calls' = Append(calls, Call("solve", SolveArgs(policy, wcsIn), Return(ok)))
        /\ isSolved' = ok
    /\ pc' = "solved"
    /\ UNCHANGED <<entry, work, policy, expWcs, srcSet, wcsIn, linearWcs, matchList,
                   sipObject, resets, matchVars, denormVars, result>>

(* As SolveFailed, had a failed solve been tried a second time *)
SolveFailedRetries ==
    /\ entry = "determineWcs" /\ pc = "solved"
    /\ SolveFailedTest(isSolved)
    /\ IF Cardinality(CallsOf("solve")) < 2
       THEN pc' = "solve" /\ UNCHANGED result
       ELSE result' = FallbackOutcome(wcsIn) /\ pc' = "done"
    /\ UNCHANGED <<entry, work, wcsVars, matchVars, denormVars, calls>>

(* lines 75-78: no solution *)
SolveFailed ==
    /\ entry = "determineWcs" /\ pc = "solved"
    /\ SolveFailedTest(isSolved)
    /\ result' = FallbackOutcome(wcsIn)
    /\ pc' = "done"
    /\ UNCHANGED <<entry, work, wcsVars, matchVars, denormVars, calls>>

(* As MatcherWcs, had the exposure's transform been handed on *)
MatcherWcsInput(lin, win) == win

(* lines 94-95: the transform matchSrcAndCatalogue is called with, wcs=linearWcs *)
MatcherWcs(lin, win) == lin

(* lines 86-95: linear Wcs, field size, catalogue, then the call of *)
(* matchSrcAndCatalogue.  min() of an empty sequence raises.        *)
FetchCatalogue ==
    /\ entry = "determineWcs" /\ pc = "solved"
    /\ ~SolveFailedTest(isSolved)
    /\ \E w \in SolverWcsSet :
        /\ linearWcs' = w
        /\ IF PyLen(srcSet) = 0
           THEN /\ calls' = Append(calls, Call("getWcs", <<>>, Return(w)))
                /\ result' = Raise("ValueError: min() arg is an empty sequence")
                /\ pc' = "done"
                /\ UNCHANGED margs
           ELSE \E c \in Catalogues :
                /\ calls' = calls \o
                     <<Call("getWcs", <<>>, Return(w)),
                       Call("getCatalogue",
                            <<CatalogueRadiusSq(getImageSizeInArcsecSq(srcSet.items, w))>>,
                            Return(c))>>
                /\ margs' = MatchArgs(c, srcSet, MatcherWcs(w, wcsIn),
                                      policy.distanceForCatalogueMatchinArcsec,
                                      policy.cleaningParameter)
                /\ pc' = "match_pre"
                /\ UNCHANGED result
    /\ UNCHANGED <<entry, work, policy, expWcs, srcSet, wcsIn, isSolved, matchList,
                   sipObject, resets, mMatchList, denormVars>>

(* lines 97-101: nothing survived the cleaning *)
NoMatchesFallback ==
    /\ entry = "determineWcs" /\ pc = "matched"
    /\ NoMatches(matchList)
    /\ result' = FallbackOutcome(wcsIn)
    /\ pc' = "done"
    /\ UNCHANGED <<entry, work, wcsVars, matchVars, denormVars, calls>>

(* lines 103-115: the SIP fit, only when the policy asks for it; the fitter *)
(* builds its object or raises                                              *)
FitSip ==
    /\ entry = "determineWcs" /\ pc = "matched"
    /\ ~NoMatches(matchList)
    /\ IF policy.calculateSip
       THEN \E out \in {Return(SipObject(matchList, linearWcs)), Raise("LsstCppException")} :
            /\ calls' = Append(calls, Call("CreateWcsWithSip",
                                 <<matchList, linearWcs, policy.wcsToleranceInArcsec,
                                   policy.maxSipOrder>>, out))
            /\ IF out.kind = "return"
               THEN /\ sipObject' = out.value
                    /\ pc' = "finish"
                    /\ UNCHANGED result
               ELSE /\ result' = FitterFailure(out.error, wcsIn)
                    /\ pc' = "done"
                    /\ UNCHANGED sipObject
       ELSE /\ pc' = "finish"
            /\ UNCHANGED <<calls, sipObject, result>>
    /\ UNCHANGED <<entry, work, policy, expWcs, srcSet, wcsIn, isSolved, linearWcs,
                   matchList, resets, matchVars, denormVars>>

(* As Finish, had the refined transform been stored on the exposure *)
FinishStoresWcs ==
    /\ entry = "determineWcs" /\ pc = "finish"
    /\ resets' = resets + 1
    /\ calls' = Append(calls, Call("reset", <<>>, Return(None)))
    /\ result' = DoneOutcome(matchList, sipObject)
    /\ expWcs' = IF sipObject = Unbound THEN expWcs ELSE sipObject.newWcs
    /\ pc' = "done"
    /\ UNCHANGED <<entry, work, policy, srcSet, wcsIn, isSolved, linearWcs,
                   matchList, sipObject, matchVars, denormVars>>

(* lines 117-119: reset the solver, then build the return value *)
Finish ==
    /\ entry = "determineWcs" /\ pc = "finish"
    /\ resets' = resets + 1
    /\ calls' = Append(calls, Call("reset", <<>>, Return(None)))
    /\ result' = DoneOutcome(matchList, sipObject)
    /\ pc' = "done"
    /\ UNCHANGED <<entry, work, policy, expWcs, srcSet, wcsIn, isSolved, linearWcs,
                   matchList, sipObject, matchVars, denormVars>>

-----------------------------------------------------------------------------
(* matchSrcAndCatalogue, called by determineWcs or directly *)

(* lines 159-164: the argument checks; None when all pass *)
MatchPrecondition(a) ==
    IF a.cat = None THEN Raise("RuntimeError: Catalogue list is not set")
    ELSE IF a.img = None THEN Raise("RuntimeError: Image list is not set")
    ELSE IF a.wcs = None THEN Raise("RuntimeError: wcs is not set")
    ELSE None

(* As NoMatchListOutcome, had the code fallen back instead of raising *)
NoMatchListFallback(w) == FallbackOutcome(w)

(* lines 171-172: no match list from the matcher *)
NoMatchListOutcome(w) == Raise("RuntimeError: No matches found between image and catalogue")

(* lines 159-164 *)
MatchCheckArgs ==
    /\ pc = "match_pre"
    /\ IF MatchPrecondition(margs) # None
       THEN /\ result' = MatchPrecondition(margs)
            /\ pc' = "done"
       ELSE /\ pc' = "match_get"
            /\ UNCHANGED result
    /\ UNCHANGED <<entry, work, wcsVars, matchVars, denormVars, calls>>

(* lines 167-172: build the matcher, ask it for the matches *)
MatchGetMatches ==
    /\ pc = "match_get"
    /\ \E ml \in MatcherAnswers(margs.cat, margs.img) :
        /\ calls' = Append(calls, Call("MatchSrcToCatalogue",
                             <<margs.cat, margs.img, margs.wcs, margs.distInArcsec>>,
                             Return(ml)))
        /\ mMatchList' = ml
        /\ IF ml = None
           THEN /\ result' = NoMatchListOutcome(wcsIn)
                /\ pc' = "done"
           ELSE /\ pc' = "match_clean"
                /\ UNCHANGED result
    /\ UNCHANGED <<entry, work, wcsVars, margs, denormVars>>

(* lines 174-175: clean the list and return it to the caller *)
MatchClean ==
    /\ pc = "match_clean"
    /\ \E ml \in CleanerAnswers(mMatchList) :
        /\ calls' = Append(calls, Call("clean", <<mMatchList, margs.wcs, margs.cleanParam>>,
                                       Return(ml)))
        /\ mMatchList' = ml
        /\ IF entry = "determineWcs"
           THEN /\ matchList' = ml
                /\ pc' = "matched"
                /\ UNCHANGED result
           ELSE /\ result' = Return(ml)
                /\ pc' = "done"
                /\ UNCHANGED matchList
    /\ UNCHANGED <<entry, work, policy, expWcs, srcSet, wcsIn, isSolved, linearWcs,
                   sipObject, resets, margs, denormVars>>

-----------------------------------------------------------------------------
(* denormalizeMatches *)

(* A schema is the sequence of its field names; a record holds its schema *)
(* and one value per field.                                               *)
FieldsOf(sch) == {sch[i] : i \in 1..Len(sch)}
RefSchemas == {<<"id">>, <<"id", "coord">>}
SrcSchemas == {<<"id">>, <<"flux">>}
FieldValues == {1, 2}
Distances == {0, 5}
RecordsOf(sch) == {[schema |-> sch, vals |-> v] : v \in [FieldsOf(sch) -> FieldValues]}

(* The ReferenceMatch objects between one reference catalog and one source catalog *)
ReferenceMatches(rs, ss) ==
    {[first |-> r, second |-> q, distance |-> d] :
        r \in RecordsOf(rs), q \in RecordsOf(ss), d \in Distances}
MatchLists ==
    UNION {{PyList(s) : s \in SeqsUpTo(ReferenceMatches(rs, ss), MaxMatches)} :
              rs \in RefSchemas, ss \in SrcSchemas}
MetaData == [tag |-> "PropertyList", name |-> "matchMeta"]

InitDenormalizeMatches ==
    /\ entry = "denormalizeMatches"
    /\ pc = "d_start"
    /\ matches \in MatchLists
    /\ matchMeta \in {None, MetaData}
    /\ mappers = Unbound /\ schema = Unbound /\ catalog = Unbound
    /\ metadata = None
    /\ loopIdx = 0
    /\ IdleWcs /\ IdleMatch /\ work = Idle
    /\ calls = <<>>
    /\ result = Pending

(* As NoMatchesProvided, had the guard been left out *)
NoMatchesProvidedNever(m) == FALSE

(* line 59: len(matches) == 0 *)
NoMatchesProvided(m) == PyLen(m) = 0

(* As JoinPrefixes, had both catalogs been given the same prefix *)
JoinPrefixesSame == <<"ref_", "ref_">>

(* line 65: the prefixes handed to SchemaMapper.join *)
JoinPrefixes == <<"ref_", "src_">>

(* SchemaMapper.join(inputs, prefixes): one mapper per input schema; all   *)
(* share the output schema holding every input's fields under its prefix, *)
(* and mapper k maps the fields of input k.                               *)
SchemaMapperJoin(inputs, prefixes) ==
    LET Renamed(k) == [i \in 1..Len(inputs[k]) |-> prefixes[k] \o inputs[k][i]]
        out == Renamed(1) \o Renamed(2)
    IN  [k \in 1..2 |->
            [input |-> inputs[k], output |-> out,
             mapping |-> [f \in FieldsOf(inputs[k]) |-> prefixes[k] \o f]]]

(* line 67: schema.addField *)
AddField(sch, name) == Append(sch, name)

(* line 72: catalog.addNew(), a record of the catalog's schema with every field zero *)
NewRow(sch) == [n \in FieldsOf(sch) |-> 0]

(* lines 73-74: row.assign(record, mapper) copies each mapped field *)
AssignRow(row, rec, mapper) ==
    [n \in DOMAIN row |->
        IF \E f \in DOMAIN mapper.mapping : mapper.mapping[f] = n
        THEN rec.vals[CHOOSE f \in DOMAIN mapper.mapping : mapper.mapping[f] = n]
        ELSE row[n]]

(* line 75: row.set(key, value) *)
SetField(row, key, v) == [row EXCEPT ![key] = v]

(* As CopyMatch, had the assignment of the source record been forgotten *)
CopyMatchWithoutSource(mm, maps, sch) ==
    SetField(AssignRow(NewRow(sch), mm.first, maps[1]), "distance", mm.distance)

(* lines 72-75: the row built for one match *)
CopyMatch(mm, maps, sch) ==
    SetField(AssignRow(AssignRow(NewRow(sch), mm.first, maps[1]), mm.second, maps[2]),
             "distance", mm.distance)

(* lines 59-60 *)
DenormCheckEmpty ==
    /\ entry = "denormalizeMatches" /\ pc = "d_start"
    /\ IF NoMatchesProvided(matches)
       THEN /\ result' = Raise("RuntimeError: No matches provided.")
            /\ pc' = "done"
       ELSE /\ pc' = "d_schema"
            /\ UNCHANGED result
    /\ UNCHANGED <<entry, work, wcsVars, matchVars, denormVars, calls>>

(* lines 62-70: the schemas of the first match, the joined mappers, the   *)
(* distance field, the empty catalog.  matches[0] of an empty list raises. *)
DenormBuildSchema ==
    /\ entry = "denormalizeMatches" /\ pc = "d_schema"
    /\ IF PyLen(matches) = 0
       THEN /\ result' = Raise("IndexError: list index out of range")
            /\ pc' = "done"
            /\ UNCHANGED <<mappers, schema, catalog>>
       ELSE LET refSchema == matches.items[1].first.schema
                srcSchema == matches.items[1].second.schema
                joined == SchemaMapperJoin(<<refSchema, srcSchema>>, JoinPrefixes)
            IN  /\ mappers' = joined
                /\ schema' = AddField(joined[1].output, "distance")
                /\ catalog' = <<>>
                /\ pc' = "d_loop"
                /\ UNCHANGED result
    /\ UNCHANGED <<entry, work, wcsVars, matchVars, matches, matchMeta, metadata, loopIdx, calls>>

(* lines 71-75: one turn of the loop over the matches *)
DenormAddRow ==
    /\ entry = "denormalizeMatches" /\ pc = "d_loop"
    /\ loopIdx < PyLen(matches)
    /\ catalog' = Append(catalog, CopyMatch(matches.items[loopIdx + 1], mappers, schema))
    /\ loopIdx' = loopIdx + 1
    /\ UNCHANGED <<entry, work, pc, wcsVars, matchVars, matches, matchMeta, mappers, schema,
                   metadata, calls, result>>

(* As HasMetadata, had the metadata never been attached *)
HasMetadataNever(meta) == FALSE

(* line 77: matchMeta is not None *)
HasMetadata(meta) == meta # None

(* lines 77-80: attach the metadata when given (setMetadata on the catalog's *)
(* table), return the catalog                                               *)
DenormReturn ==
    /\ entry = "denormalizeMatches" /\ pc = "d_loop"
    /\ loopIdx = PyLen(matches)
    /\ IF HasMetadata(matchMeta)
       THEN /\ metadata' = matchMeta
            /\ calls' = Append(calls, Call("setMetadata", <<matchMeta>>, Return(None)))
       ELSE UNCHANGED <<metadata, calls>>
    /\ result' = Return([tag |-> "BaseCatalog", schema |-> schema, records |-> catalog,
                         metadata |-> metadata'])
    /\ pc' = "done"
    /\ UNCHANGED <<entry, work, wcsVars, matchVars, matches, matchMeta, mappers, schema,
                   catalog, loopIdx>>

-----------------------------------------------------------------------------

Init == InitDetermineWcs \/ InitMatchSrcAndCatalogue

Next ==
    \/ Setup
    \/ Solve
    \/ SolveFailed
    \/ FetchCatalogue
    \/ MatchCheckArgs
    \/ MatchGetMatches
    \/ MatchClean
    \/ NoMatchesFallback
    \/ FitSip
    \/ Finish

Spec == Init /\ [][Next]_vars

NextDenorm ==
    \/ DenormCheckEmpty
    \/ DenormBuildSchema
    \/ DenormAddRow
    \/ DenormReturn

SpecDenorm == InitDenormalizeMatches /\ [][NextDenorm]_vars

-----------------------------------------------------------------------------
(* The Spatial Association Engine, associate(catalogPoints, sourcePoints, *)
(* transform, tolerance): greedy nearest-neighbour association.           *)

MaxPoints == 2      \* longest catalogue / source point list given to associate

AssocPositions == {[x |-> 0, y |-> 0], [x |-> 1, y |-> 0], [x |-> 1, y |-> 1], [x |-> 3, y |-> 0]}
AssocTransforms == {Wcs("linearWcs", 1), Wcs("linearWcs", 2)}
AssocTolerances == {1, 2}

InitAssociate ==
    /\ entry = "associate"
    /\ pc = "a_start"
    /\ \E c \in SeqsUpTo(AssocPositions, MaxPoints), q \in SeqsUpTo(AssocPositions, MaxPoints),
          w \in AssocTransforms, t \in AssocTolerances :
          work = [cat |-> c, src |-> q, wcs |-> w, tol |-> t,
                  next |-> 1, used |-> {}, out |-> <<>>]
    /\ IdleWcs /\ IdleMatch /\ IdleDenorm
    /\ calls = <<>>
    /\ result = Pending

(* Squared separation between a catalogue point (sky) and a source point *)
(* (pixel) mapped through the transform                                  *)
SeparationSq(c, q, w) ==
    LET sky == xyToRaDec(w, q.x, q.y)
    IN  (c.x - sky[1]) * (c.x - sky[1]) + (c.y - sky[2]) * (c.y - sky[2])

(* As Unpaired, had a paired catalogue point stayed in consideration *)
UnpairedOrNot(n, used) == 1..n

(* The catalogue points not yet consumed by an earlier source point *)
Unpaired(n, used) == (1..n) \ used

(* The nearest candidate; ties go to the earlier catalogue point *)
Nearest(cat, q, w, cands) ==
    CHOOSE c \in cands : \A d \in cands :
        \/ SeparationSq(cat[c], q, w) < SeparationSq(cat[d], q, w)
        \/ SeparationSq(cat[c], q, w) = SeparationSq(cat[d], q, w) /\ c <= d

WithinTolerance(dSq, tol) == dSq <= tol * tol

(* An empty point set on either side is a precondition violation *)
AssocCheck ==
    /\ entry = "associate" /\ pc = "a_start"
    /\ IF Len(work.cat) = 0 \/ Len(work.src) = 0
       THEN result' = Raise("PreconditionError: empty point set") /\ pc' = "done"
       ELSE pc' = "a_loop" /\ UNCHANGED result
    /\ UNCHANGED <<entry, work, wcsVars, matchVars, denormVars, calls>>

(* One source point: pair it with the nearest unpaired catalogue point *)
(* when that lies within the tolerance                                 *)
AssocStep ==
    /\ entry = "associate" /\ pc = "a_loop"
    /\ work.next <= Len(work.src)
    /\ LET s == work.next
           cands == Unpaired(Len(work.cat), work.used)
       IN  IF cands = {}
           THEN work' = [work EXCEPT !.next = s + 1]
           ELSE LET c == Nearest(work.cat, work.src[s], work.wcs, cands)
                    dSq == SeparationSq(work.cat[c], work.src[s], work.wcs)
                IN  IF WithinTolerance(dSq, work.tol)
                    THEN work' = [work EXCEPT
                                    !.next = s + 1,
                                    !.used = @ \cup {c},
                                    !.out = Append(@, [first |-> c, second |-> s,
                                                       distanceSq |-> dSq])]
                    ELSE work' = [work EXCEPT !.next = s + 1]
    /\ UNCHANGED <<entry, pc, wcsVars, matchVars, denormVars, calls, result>>

(* Every source point seen: return the association list *)
AssocReturn ==
    /\ entry = "associate" /\ pc = "a_loop"
    /\ work.next > Len(work.src)
    /\ result' = Return(PyList(work.out))
    /\ pc' = "done"
    /\ UNCHANGED <<entry, work, wcsVars, matchVars, denormVars, calls>>

NextAssociate == AssocCheck \/ AssocStep \/ AssocReturn

SpecAssociate == InitAssociate /\ [][NextAssociate]_vars

-----------------------------------------------------------------------------
(* The Robust Cleaner, clean(associations, transform, sigmaThreshold):    *)
(* iterative sigma-clipping of the residuals.                             *)

MaxAssocs == 4      \* longest association list given to clean

(* The floor below which the surviving set is not reduced further *)
MinViableCount == 3

Residuals == {0, 1, 5, 10}
SigmaThresholds == {1, 3}

(* The association lists: association i pairs catalogue point i with *)
(* source point i at the given residual distance                     *)
AssociationLists ==
    {[i \in 1..Len(rs) |-> [first |-> i, second |-> i, distance |-> rs[i]]] :
        rs \in SeqsUpTo(Residuals, MaxAssocs) \ {<<>>}}

InitClean ==
    /\ entry = "clean"
    /\ pc = "c_loop"
    /\ \E a \in AssociationLists, k \in SigmaThresholds :
          work = [assocs |-> a, sigma |-> k, cur |-> a, iters |-> 0]
    /\ IdleWcs /\ IdleMatch /\ IdleDenorm
    /\ calls = <<>>
    /\ result = Pending

RECURSIVE SumOf(_, _)
SumOf(as, i) == IF i = 0 THEN 0 ELSE as[i].distance + SumOf(as, i - 1)
RECURSIVE SumSqOf(_, _)
SumSqOf(as, i) == IF i = 0 THEN 0 ELSE as[i].distance * as[i].distance + SumSqOf(as, i - 1)

(* residual > mean + k * stddev over the list as, without division or    *)
(* square root: with n = len, S = sum, Q = n*sum(r^2) - S^2 (n^2 times   *)
(* the variance), it reads  n*r - S > k * sqrt(Q).                       *)
ExceedsClip(r, as, k) ==
    LET n == Len(as)
        S == SumOf(as, n)
        Q == n * SumSqOf(as, n) - S * S
        L == n * r - S
    IN  L > 0 /\ L * L > k * k * Q

(* Step 3: the associations that stay *)
Survivors(as, k) == SelectSeq(as, LAMBDA a : ~ExceedsClip(a.distance, as, k))

(* As BelowFloor, had the minimum viable count not been looked at *)
BelowFloorNever(n) == FALSE

(* Step 4: fewer than the minimum viable count would remain *)
BelowFloor(n) == n < MinViableCount

(* An iteration that removes outliers and goes round again *)
CleanClip ==
    /\ entry = "clean" /\ pc = "c_loop"
    /\ LET sv == Survivors(work.cur, work.sigma)
       IN  /\ sv # work.cur
           /\ ~BelowFloor(Len(sv))
           /\ work' = [work EXCEPT !.cur = sv, !.iters = @ + 1]
    /\ UNCHANGED <<entry, pc, wcsVars, matchVars, denormVars, calls, result>>

(* The iteration that stops: nothing is removed, or too few would remain; *)
(* the current set is returned                                            *)
CleanStop ==
    /\ entry = "clean" /\ pc = "c_loop"
    /\ LET sv == Survivors(work.cur, work.sigma)
       IN  sv = work.cur \/ BelowFloor(Len(sv))
    /\ result' = Return(PyList(work.cur))
    /\ pc' = "done"
    /\ UNCHANGED <<entry, work, wcsVars, matchVars, denormVars, calls>>

NextClean == CleanClip \/ CleanStop

(* clean runs to completion on the calling thread *)
SpecClean == InitClean /\ [][NextClean]_vars /\ WF_vars(NextClean)

-----------------------------------------------------------------------------
(* Properties of determineWcs and matchSrcAndCatalogue *)

InDetermineWcs == entry = "determineWcs"
IsEmptyList(v) == v.tag = "list" /\ Len(v.items) = 0
IsNonEmptyList(v) == v.tag = "list" /\ Len(v.items) > 0

(* C1: whenever solver.solve answers False, the run returns (None, wcsIn), *)
(* wcsIn being the transform the exposure held at the start (possibly      *)
(* None), and getWcs, getCatalogue, the matcher, the cleaner and the SIP   *)
(* fitter are never invoked on that run.                                   *)
C1_SolveFailureFallsBack ==
    (InDetermineWcs /\ isSolved = PyFalse) =>
        /\ pc \in {"solved", "done"}
        /\ pc = "solved" => result = Pending
        /\ pc = "done" => result = Return(<<None, expWcs>>)
        /\ \A f \in {"getWcs", "getCatalogue", "MatchSrcToCatalogue", "clean",
                     "CreateWcsWithSip"} : ~Called(f)

C1_Witness ==
    /\ InDetermineWcs /\ isSolved = PyFalse /\ pc = "done"
    /\ expWcs = InputWcs /\ result = Return(<<None, InputWcs>>)

(* C2: whenever the cleaned list matchSrcAndCatalogue returns is empty,   *)
(* the run returns the fallback (None, wcsIn) without raising and without *)
(* invoking CreateWcsWithSip, whatever the policy.                        *)
C2_EmptyCleanedListFallsBack ==
    (InDetermineWcs /\ IsEmptyList(matchList)) =>
        /\ pc \in {"matched", "done"}
        /\ pc = "matched" => result = Pending
        /\ pc = "done" => result = Return(<<None, expWcs>>)
        /\ ~Called("CreateWcsWithSip")

C2_Witness ==
    /\ InDetermineWcs /\ IsEmptyList(matchList) /\ pc = "done"
    /\ policy.calculateSip
    /\ \E i \in CallsOf("clean") : Len(calls[i].args[1].items) > 0
    /\ result = Return(<<None, expWcs>>)

(* C3: solver.solve() is called without an initial guess only when the  *)
(* exposure carries no Wcs or the policy flag blindSolve is set; with a  *)
(* Wcs on the exposure and blindSolve false the call is solve(wcsIn).    *)
C3_BlindSolveOnlyWhenNeeded ==
    \A i \in CallsOf("solve") :
        /\ calls[i].args = <<>> => (expWcs = None \/ policy.blindSolve)
        /\ (expWcs # None /\ ~policy.blindSolve) => calls[i].args = <<expWcs>>

FitterRaised == \E i \in CallsOf("CreateWcsWithSip") : calls[i].out.kind = "raise"

(* C4: for every value of blindSolve and calculateSip, when the solve    *)
(* succeeds and a non-empty list survives cleaning, the fitter is invoked *)
(* exactly once with that list and the solver's linear transform, and    *)
(* (the fitter not failing) the run returns (cleaned list, refined       *)
(* transform) rather than raising.                                       *)
C4_FitOnceAndReturnRefined ==
    (InDetermineWcs /\ pc = "done" /\ isSolved = PyTrue /\ IsNonEmptyList(matchList)
       /\ ~FitterRaised) =>
        /\ Cardinality(CallsOf("CreateWcsWithSip")) = 1
        /\ \A i \in CallsOf("CreateWcsWithSip") :
              /\ calls[i].args[1] = matchList
              /\ calls[i].args[2] = linearWcs
              /\ result = Return(<<matchList, calls[i].out.value.newWcs>>)

(* C5: when CreateWcsWithSip fails, determineWcs ends with that very      *)
(* failure: it returns neither a fallback nor a match list, and calls     *)
(* neither the fitter nor the solver a second time.                       *)
C5_FitterFailurePropagates ==
    \A i \in CallsOf("CreateWcsWithSip") :
        calls[i].out.kind = "raise" =>
            /\ pc = "done"
            /\ result = calls[i].out
            /\ i = Len(calls)
            /\ Cardinality(CallsOf("CreateWcsWithSip")) = 1
            /\ Cardinality(CallsOf("solve")) = 1

C5_Witness ==
    /\ InDetermineWcs /\ FitterRaised /\ pc = "done"
    /\ result = Raise("LsstCppException")

MatcherGaveNone ==
    \E i \in CallsOf("MatchSrcToCatalogue") :
        /\ calls[i].out = Return(None)
        /\ calls[i].args[1] # None /\ calls[i].args[2] # None /\ calls[i].args[3] # None

(* C6 as stated: after a successful solve, when the matcher yields no    *)
(* match list for a present catalogue, source list and transform, the    *)
(* run does not raise but returns the fallback (None, wcsIn).            *)
C6_NoMatchListFallsBack ==
    (InDetermineWcs /\ isSolved = PyTrue /\ MatcherGaveNone) =>
        /\ result.kind # "raise"
        /\ pc = "done" => result = Return(<<None, expWcs>>)

(* C6 as amended: after a successful solve, when the matcher yields no   *)
(* match list for a present catalogue, source list and transform, the    *)
(* run ends by raising matchSrcAndCatalogue's RuntimeError, and neither   *)
(* the cleaner nor the fitter is invoked.                                *)
C6_NoMatchListRaises ==
    (InDetermineWcs /\ isSolved = PyTrue /\ MatcherGaveNone) =>
        /\ pc = "done"
        /\ result = Raise("RuntimeError: No matches found between image and catalogue")
        /\ ~Called("clean")
        /\ ~Called("CreateWcsWithSip")

C6_Witness ==
    /\ InDetermineWcs /\ isSolved = PyTrue /\ MatcherGaveNone /\ pc = "done"
    /\ result.kind = "raise"

(* C7: matchSrcAndCatalogue signals a hard error, before invoking the    *)
(* matcher or the cleaner, whenever the catalogue list or the source     *)
(* list is empty; it never answers an empty input by returning a list.   *)
C7_EmptyInputIsHardError ==
    (margs.tag = "args" /\ (IsEmptyList(margs.cat) \/ IsEmptyList(margs.img))) =>
        /\ ~Called("MatchSrcToCatalogue")
        /\ ~Called("clean")
        /\ pc = "done" => result.kind = "raise"

-----------------------------------------------------------------------------
(* Properties of denormalizeMatches *)

InDenormalize == entry = "denormalizeMatches"
Returned == pc = "done" /\ result.kind = "return"
RefFields == FieldsOf(matches.items[1].first.schema)
SrcFields == FieldsOf(matches.items[1].second.schema)

(* C8: called with an empty match list, denormalizeMatches raises the    *)
(* RuntimeError before reading a schema, building a catalog or attaching *)
(* metadata, whether or not matchMeta is given.                          *)
C8_EmptyListRaises ==
    (InDenormalize /\ IsEmptyList(matches)) =>
        /\ pc \in {"d_start", "done"}
        /\ pc = "done" => result = Raise("RuntimeError: No matches provided.")
        /\ mappers = Unbound /\ schema = Unbound /\ catalog = Unbound
        /\ metadata = None

C8_Witness ==
    /\ InDenormalize /\ IsEmptyList(matches) /\ matchMeta = MetaData
    /\ pc = "done" /\ result.kind = "raise"

(* C9: for a match list of length N >= 1 the returned table has exactly N *)
(* records in input order; record i carries every field value of          *)
(* matches[i].first under "ref_", every field value of matches[i].second  *)
(* under "src_", and distance = matches[i].distance.                      *)
C9_RowsCarryTheMatches ==
    (InDenormalize /\ Returned) =>
        /\ PyLen(matches) >= 1
        /\ Len(result.value.records) = PyLen(matches)
        /\ \A i \in 1..PyLen(matches) :
            LET row == result.value.records[i]
                mm == matches.items[i]
            IN  /\ \A f \in FieldsOf(mm.first.schema) : row["ref_" \o f] = mm.first.vals[f]
                /\ \A f \in FieldsOf(mm.second.schema) : row["src_" \o f] = mm.second.vals[f]
                /\ row["distance"] = mm.distance

C9_Witness ==
    /\ InDenormalize /\ Returned
    /\ PyLen(matches) = 2
    /\ matches.items[1] # matches.items[2]
    /\ "id" \in RefFields /\ "id" \in SrcFields
    /\ matches.items[1].first.vals["id"] # matches.items[1].second.vals["id"]
    /\ result.value.records[2]["src_id"] = matches.items[2].second.vals["id"]

(* C10: the combined schema holds one "ref_" field per field of the      *)
(* catalog record, one "src_" field per field of the source record and   *)
(* exactly one "distance" field, and its names are pairwise distinct     *)
(* even when the two input schemas share field names.                    *)
C10_CombinedSchemaIsDisjoint ==
    (InDenormalize /\ schema # Unbound) =>
        LET Count(n) == Cardinality({i \in 1..Len(schema) : schema[i] = n})
        IN  /\ \A f \in RefFields : Count("ref_" \o f) = 1
            /\ \A f \in SrcFields : Count("src_" \o f) = 1
            /\ Count("distance") = 1
            /\ Len(schema) = Cardinality(RefFields) + Cardinality(SrcFields) + 1
            /\ \A i, j \in 1..Len(schema) : i # j => schema[i] # schema[j]
            /\ \A f \in RefFields, g \in SrcFields :
                  mappers[1].mapping[f] # mappers[2].mapping[g]

C10_Witness ==
    /\ InDenormalize /\ Returned
    /\ RefFields \cap SrcFields # {}
    /\ Len(schema) = 4

(* C11: the metadata is attached to the returned table if and only if    *)
(* matchMeta is given; it is set once, on the table, and adds no field to *)
(* the schema and no value to a row, so the records are those built from  *)
(* the matches alone.                                                     *)
C11_MetadataIsOutOfBand ==
    InDenormalize =>
        /\ Cardinality(CallsOf("setMetadata")) <= 1
        /\ ~Returned => (metadata = None /\ ~Called("setMetadata"))
        /\ Returned =>
            LET names == {"ref_" \o f : f \in RefFields} \cup {"src_" \o f : f \in SrcFields}
                            \cup {"distance"}
                tab == result.value
            IN  /\ (tab.metadata = matchMeta) /\ (metadata = matchMeta)
                /\ Called("setMetadata") <=> (matchMeta # None)
                /\ \A i \in CallsOf("setMetadata") : calls[i].args = <<matchMeta>>
                /\ FieldsOf(tab.schema) = names
                /\ Len(tab.schema) = Cardinality(names)
                /\ Len(tab.records) = PyLen(matches)
                /\ \A i \in 1..Len(tab.records) : DOMAIN tab.records[i] = names

C11_Witness ==
    /\ InDenormalize /\ Returned
    /\ matchMeta = MetaData
    /\ result.value.metadata = MetaData
    /\ Len(result.value.records) = 2

Stages == <<"solve", "getWcs", "getCatalogue", "MatchSrcToCatalogue", "clean", "CreateWcsWithSip">>
IsStage(f) == \E r \in 1..Len(Stages) : Stages[r] = f
StageRank(f) == CHOOSE r \in 1..Len(Stages) : Stages[r] = f

(* C12: a run of determineWcs is a single pass: solve is invoked exactly  *)
(* once, catalogue fetch, matcher, cleaner and fitter at most once, in    *)
(* the order solve, getWcs, getCatalogue, match, clean, fit, and no stage *)
(* is entered again after a later one has started.                        *)
C12_SinglePass ==
    InDetermineWcs =>
        /\ \A i, j \in 1..Len(calls) :
              (i < j /\ IsStage(calls[i].fn) /\ IsStage(calls[j].fn)) =>
                  StageRank(calls[i].fn) < StageRank(calls[j].fn)
        /\ \A j \in 1..Len(calls) :
              (IsStage(calls[j].fn) /\ StageRank(calls[j].fn) > 1) =>
                  \E i \in 1..(j - 1) :
                      /\ IsStage(calls[i].fn)
                      /\ StageRank(calls[i].fn) = StageRank(calls[j].fn) - 1
        /\ pc \notin {"start", "solve"} => Cardinality(CallsOf("solve")) = 1
        /\ pc \in {"start", "solve"} => ~Called("solve")

C12_Witness ==
    /\ InDetermineWcs /\ pc = "done" /\ result.kind = "return"
    /\ \A r \in 1..Len(Stages) : Cardinality(CallsOf(Stages[r])) = 1

(* The square of the field size in arcseconds: the diagonal between the   *)
(* sky images, under w, of the corners (min x, min y) and (max x, max y)  *)
(* of the bounding box of the sources' pixel positions.                   *)
FieldDiagonalSq(srcs, w) ==
    LET xs == {srcs[k].x : k \in 1..Len(srcs)}
        ys == {srcs[k].y : k \in 1..Len(srcs)}
        lo == xyToRaDec(w, Min(xs), Min(ys))
        hi == xyToRaDec(w, Max(xs), Max(ys))
    IN  ((hi[1] - lo[1]) * (hi[1] - lo[1]) + (hi[2] - lo[2]) * (hi[2] - lo[2]))
            * 12960000
OnePosition(srcs) == \A k, l \in 1..Len(srcs) : srcs[k] = srcs[l]

(* C13: on every run that reaches the catalogue fetch, the radius passed  *)
(* to getCatalogue is exactly twice the field size computed from the      *)
(* source list and the solver's linear transform (squares: four times),   *)
(* so it is never less than twice the field size, and it is zero when all *)
(* sources share one pixel position.                                      *)
C13_RadiusIsTwiceFieldSize ==
    \A i \in CallsOf("getCatalogue") :
        LET radiusSq == calls[i].args[1]
            sizeSq == FieldDiagonalSq(srcSet.items, linearWcs)
        IN  /\ radiusSq = 4 * sizeSq
            /\ radiusSq >= 4 * sizeSq
            /\ OnePosition(srcSet.items) => radiusSq = 0

C13_Witness ==
    /\ InDetermineWcs /\ Called("getCatalogue")
    /\ PyLen(srcSet) = 2 /\ ~OnePosition(srcSet.items)
    /\ linearWcs.cd = 2
    /\ \E i \in CallsOf("getCatalogue") : calls[i].args[1] = 4 * 20 * 12960000

(* C14: within one run the cleaner is applied to the matcher's output     *)
(* before anything is fitted or returned, with the transform the matcher  *)
(* was given: the solver's linear transform of this run is the one used   *)
(* for the field size, the matcher, the cleaner and the fitter, and the   *)
(* input transform wcsIn is passed to none of them.                       *)
C14_OneTransformThroughout ==
    InDetermineWcs =>
        /\ \A i \in CallsOf("getCatalogue") :
              calls[i].args[1] = 4 * FieldDiagonalSq(srcSet.items, linearWcs)
        /\ \A i \in CallsOf("MatchSrcToCatalogue") :
              /\ calls[i].args[3] = linearWcs
              /\ calls[i].args[3] # expWcs
              /\ \E g \in CallsOf("getWcs") : g < i /\ calls[g].out = Return(calls[i].args[3])
        /\ \A i \in CallsOf("clean") :
              /\ calls[i].args[2] = linearWcs
              /\ calls[i].args[2] # expWcs
              /\ i > 1
              /\ calls[i - 1].fn = "MatchSrcToCatalogue"
              /\ calls[i - 1].out = Return(calls[i].args[1])
              /\ calls[i - 1].args[3] = calls[i].args[2]
        /\ \A i \in CallsOf("CreateWcsWithSip") :
              /\ calls[i].args[2] = linearWcs
              /\ calls[i].args[2] # expWcs
              /\ \E c \in CallsOf("clean") : c < i /\ calls[c].out = Return(calls[i].args[1])
        /\ (pc = "done" /\ result.kind = "return" /\ result.value[1] # None) =>
              \E c \in CallsOf("clean") : calls[c].out = Return(result.value[1])

C14_Witness ==
    /\ InDetermineWcs /\ pc = "done" /\ result.kind = "return"
    /\ expWcs = InputWcs
    /\ Called("CreateWcsWithSip")
    /\ \E c \in CallsOf("clean") : Len(calls[c].args[1].items) > Len(calls[c].out.value.items)
    /\ result.value[1] # None

IsFallback(r) == r.kind = "return" /\ r.value[1] = None

(* C17: determineWcs never mutates or replaces the exposure's transform:  *)
(* on every path the exposure holds after the run the Wcs it held before, *)
(* the policy (outputWcsKey included) is only read, wcsIn is the          *)
(* exposure's transform, and a fallback returns that same wcsIn.          *)
C17_ExposureWcsUntouched ==
    /\ [][expWcs' = expWcs /\ policy' = policy]_vars
    /\ [](InDetermineWcs =>
            /\ wcsIn \in {Unbound, expWcs}
            /\ (pc = "done" /\ IsFallback(result)) =>
                  (result.value[2] = wcsIn /\ result.value[2] = expWcs))

C17_Witness ==
    /\ InDetermineWcs /\ pc = "done"
    /\ expWcs = InputWcs /\ wcsIn = InputWcs
    /\ result.kind = "return" /\ result.value[1] # None
    /\ result.value[2] # expWcs

FallbackOrRaised == IsFallback(result) \/ result.kind = "raise"

(* C18: the solver of a run is reset at most once, and only on the path   *)
(* where the solve succeeded and a non-empty cleaned match list was       *)
(* produced; on both fallback returns and on every raised error the run   *)
(* ends with the solver never reset.                                      *)
C18_ResetOnlyOnSuccess ==
    InDetermineWcs =>
        /\ resets <= 1
        /\ resets = Cardinality(CallsOf("reset"))
        /\ resets = 1 => (isSolved = PyTrue /\ IsNonEmptyList(matchList))
        /\ (pc = "done" /\ FallbackOrRaised) => resets = 0

-----------------------------------------------------------------------------
(* Properties of associate *)

InAssociate == entry = "associate"

(* C15: for non-empty catalogue and source point sets and a positive      *)
(* tolerance, the association list holds no source point twice and no     *)
(* catalogue point twice: a catalogue point already paired is out of      *)
(* consideration for every later source point.                            *)
C15_AssociationsAreOneToOne ==
    (InAssociate /\ Len(work.cat) > 0 /\ Len(work.src) > 0) =>
        /\ \A i, j \in 1..Len(work.out) :
              i # j => /\ work.out[i].first # work.out[j].first
                       /\ work.out[i].second # work.out[j].second
        /\ work.used = {work.out[i].first : i \in 1..Len(work.out)}
        /\ pc = "done" => result = Return(PyList(work.out))

C15_Witness ==
    /\ InAssociate /\ pc = "done" /\ result.kind = "return"
    /\ Len(work.src) = 2 /\ work.src[1] = work.src[2]
    /\ Len(result.value.items) = 2
    /\ result.value.items[1].first # result.value.items[2].first

-----------------------------------------------------------------------------
(* Properties of clean *)

(* C16: the sigma-clipping loop terminates for every non-empty list and   *)
(* positive threshold: an iteration leaves the surviving set unchanged    *)
(* and stops, or makes it strictly smaller; the loop stops once fewer     *)
(* than the minimum viable count would remain; the returned list is never *)
(* larger than the input and never empty.                                 *)
C16_CleanTerminates ==
    /\ <>(pc = "done")
    /\ [][pc = "c_loop" =>
            \/ pc' = "done" /\ work'.cur = work.cur
            \/ pc' = "c_loop" /\ Len(work'.cur) < Len(work.cur)]_vars
    /\ [](pc = "done" =>
            /\ result = Return(PyList(work.cur))
            /\ Len(work.cur) >= 1
            /\ Len(work.cur) <= Len(work.assocs)
            /\ Len(work.assocs) >= MinViableCount => Len(work.cur) >= MinViableCount)

C16_Witness ==
    /\ entry = "clean" /\ pc = "done"
    /\ work.iters = 1
    /\ Len(work.assocs) = 4 /\ Len(work.cur) = 3
    /\ Len(Survivors(work.cur, work.sigma)) < MinViableCount

====
